---- MODULE Spec2Model ----
(***************************************************************************)
(* Model of internal/command/linux.go of fyne-cross: the linux platform    *)
(* command.  Parse resolves the requested architectures and builds one     *)
(* container image descriptor per architecture (setupContainerImages);     *)
(* Run hands the descriptors to the pipeline runner, which calls Build     *)
(* once per descriptor; Build runs prepareIcon, fyneRelease/fynePackage,   *)
(* 'mv' and 'tar -xf' in the descriptor's container.                       *)
(*                                                                         *)
(* A Go string is a sequence of atoms (<<>> is ""), so that formatting     *)
(* (fmt.Sprintf, fmt.Errorf, JoinPathContainer) is concatenation and not   *)
(* the identity.  A path is a sequence of Go strings.  An error is a       *)
(* record [isNil, msg].                                                    *)
(***************************************************************************)
EXTENDS Integers, Sequences, FiniteSets, TLC

\* Longest -arch list given on the command line.
MaxArchs == 2
\* Number of times Run is invoked on one parsed command.
MaxRuns == 2

Range(s) == {s[k] : k \in DOMAIN s}

-----------------------------------------------------------------------------
(* Constants of the package *)

linuxOS == "linux"

ArchAmd64 == "amd64"
Arch386 == "386"
ArchArm == "arm"
ArchArm64 == "arm64"

linuxArchSupported == <<ArchAmd64, Arch386, ArchArm, ArchArm64>>

\* Tokens a user may write after -arch: the supported ones and one that is not.
ArchTokens == Range(linuxArchSupported) \cup {"riscv"}
\* runtime.GOARCH of the host the tool runs on.
HostArchs == {"amd64", "riscv"}
\* Application names (the -name flag).
AppNames == {<<"app">>, <<"demo">>}

EmptyStr == <<>>

-----------------------------------------------------------------------------
(* Errors *)

NilErr == [isNil |-> TRUE, msg |-> <<>>]
NewError(msg) == [isNil |-> FALSE, msg |-> msg]
\* fmt.Errorf(prefix + "%v", err)
Errorf(prefix, err) == NewError(prefix \o err.msg)

\* What the collaborators can return.
FlagsErrs == {NilErr, NewError(<<"flags: cannot resolve working directory">>)}
ContextErrs == {NilErr, NewError(<<"context: invalid path">>)}
EngineErrs == {NilErr, NewError(<<"engine: not found">>)}
IconErrs == {NilErr, NewError(<<"icon: cannot create default icon">>)}
FyneErrs == {NilErr, NewError(<<"fyne: exit status 1">>)}
RunErrs == {NilErr, NewError(<<"run: exit status 1">>)}

-----------------------------------------------------------------------------
(* Target resolution *)

RECURSIVE resolveArch(_, _, _)
resolveArch(flag, supported, acc) ==
    IF flag = <<>> THEN [archs |-> acc, err |-> NilErr]
    ELSE IF Head(flag) \notin Range(supported)
         THEN [archs |-> <<>>,
               err |-> NewError(<<"arch ", Head(flag), " is not supported. Supported: ">>
                                \o supported)]
         ELSE resolveArch(Tail(flag), supported,
                          IF Head(flag) \in Range(acc) THEN acc
                          ELSE Append(acc, Head(flag)))

targetArchFromFlag(flag, supported) == resolveArch(flag, supported, <<>>)

\* The resolved Build Context: application name and release flag.
ZeroContext == [Name |-> EmptyStr, Release |-> FALSE]
makeDefaultContext(flags) == [Name |-> flags.Name, Release |-> flags.Release]

-----------------------------------------------------------------------------
(* Container image descriptors *)

imageID(os, arch) == <<os, "-", arch>>

createContainerImage(arch, os) ==
    [arch |-> arch, os |-> os, id |-> imageID(os, arch), env |-> {}, setEnv |-> <<>>]

\* image.SetEnv(key, value): env is a mapping (one value per key); setEnv is
\* the sequence of the calls made.
SetEnv(image, key, value) ==
    [image EXCEPT !.env = {p \in @ : p[1] # key} \cup {<<key, value>>},
                  !.setEnv = Append(@, <<key, value>>)]

RECURSIVE SetEnvAll(_, _)
SetEnvAll(image, kvs) ==
    IF kvs = <<>> THEN image
    ELSE SetEnvAll(SetEnv(image, Head(kvs)[1], Head(kvs)[2]), Tail(kvs))

archEnvNoGoarm(arch) ==
    CASE arch = ArchAmd64 ->
           << <<"GOARCH", "amd64">>,
              <<"CC", "zig cc -target x86_64-linux-gnu -isystem /usr/include -L/usr/lib/x86_64-linux-gnu">>,
              <<"CXX", "zig c++ -target x86_64-linux-gnu -isystem /usr/include -L/usr/lib/x86_64-linux-gnu">> >>
      [] arch = Arch386 ->
           << <<"GOARCH", "386">>,
              <<"CC", "zig cc -target x86-linux-gnu -isystem /usr/include -L/usr/lib/i386-linux-gnu">>,
              <<"CXX", "zig c++ -target x86-linux-gnu -isystem /usr/include -L/usr/lib/i386-linux-gnu">> >>
      [] arch = ArchArm ->
           << <<"GOARCH", "arm">>,
              <<"CC", "zig cc -target arm-linux-gnueabihf -isystem /usr/include -L/usr/lib/arm-linux-gnueabihf">>,
              <<"CXX", "zig c++ -target arm-linux-gnueabihf -isystem /usr/include -L/usr/lib/arm-linux-gnueabihf">> >>
      [] arch = ArchArm64 ->
           << <<"GOARCH", "arm64">>,
              <<"CC", "zig cc -target aarch64-linux-gnu -isystem /usr/include -L/usr/lib/aarch64-linux-gnu">>,
              <<"CXX", "zig c++ -target aarch64-linux-gnu -isystem /usr/include -L/usr/lib/aarch64-linux-gnu">> >>
      [] OTHER -> <<>>

\* The SetEnv calls of the architecture switch, in order.
archEnv(arch) ==
    CASE arch = ArchAmd64 ->
           << <<"GOARCH", "amd64">>,
              <<"CC", "zig cc -target x86_64-linux-gnu -isystem /usr/include -L/usr/lib/x86_64-linux-gnu">>,
              <<"CXX", "zig c++ -target x86_64-linux-gnu -isystem /usr/include -L/usr/lib/x86_64-linux-gnu">> >>
      [] arch = Arch386 ->
           << <<"GOARCH", "386">>,
              <<"CC", "zig cc -target x86-linux-gnu -isystem /usr/include -L/usr/lib/i386-linux-gnu">>,
              <<"CXX", "zig c++ -target x86-linux-gnu -isystem /usr/include -L/usr/lib/i386-linux-gnu">> >>
      [] arch = ArchArm ->
           << <<"GOARCH", "arm">>,
              <<"GOARM", "7">>,
              <<"CC", "zig cc -target arm-linux-gnueabihf -isystem /usr/include -L/usr/lib/arm-linux-gnueabihf">>,
              <<"CXX", "zig c++ -target arm-linux-gnueabihf -isystem /usr/include -L/usr/lib/arm-linux-gnueabihf">> >>
      [] arch = ArchArm64 ->
           << <<"GOARCH", "arm64">>,
              <<"CC", "zig cc -target aarch64-linux-gnu -isystem /usr/include -L/usr/lib/aarch64-linux-gnu">>,
              <<"CXX", "zig c++ -target aarch64-linux-gnu -isystem /usr/include -L/usr/lib/aarch64-linux-gnu">> >>
      [] OTHER -> <<>>

\* One iteration of the loop of setupContainerImages, up to the append.
setupImage(arch) ==
    SetEnv(SetEnvAll(createContainerImage(arch, linuxOS), archEnv(arch)),
           "GOOS", "linux")

appendImageKeepLast(images, image) == <<image>>

\* cmd.Images = append(cmd.Images, image)
appendImage(images, image) == Append(images, image)

RECURSIVE setupImages(_, _)
setupImages(images, targetArch) ==
    IF targetArch = <<>> THEN images
    ELSE setupImages(appendImage(images, setupImage(Head(targetArch))), Tail(targetArch))

RECURSIVE createCalls(_)
createCalls(targetArch) ==
    IF targetArch = <<>> THEN <<>>
    ELSE <<"createContainerImage">> \o createCalls(Tail(targetArch))

\* A faulty variant of setupContainerImages: the build context is made and
\* stored before the architecture list is looked at.
setupContainerImagesContextFirst(cmd, flags, ctxErr, engErr) ==
    LET ta == targetArchFromFlag(flags.TargetArch, linuxArchSupported)
        ctx == makeDefaultContext(flags)
    IN  IF ~ctxErr.isNil
        THEN [cmd |-> cmd, err |-> ctxErr, calls |-> <<"makeDefaultContext">>]
        ELSE IF ~ta.err.isNil
        THEN [cmd |-> [cmd EXCEPT !.defaultContext = ctx],
              err |-> Errorf(<<"could not make build context for ", linuxOS, " OS: ">>, ta.err),
              calls |-> <<"makeDefaultContext", "targetArchFromFlag">>]
        ELSE IF ~engErr.isNil
        THEN [cmd |-> [cmd EXCEPT !.defaultContext = ctx],
              err |-> engErr,
              calls |-> <<"makeDefaultContext", "targetArchFromFlag", "newContainerEngine">>]
        ELSE [cmd |-> [Images |-> setupImages(cmd.Images, ta.archs), defaultContext |-> ctx],
              err |-> NilErr,
              calls |-> <<"makeDefaultContext", "targetArchFromFlag", "newContainerEngine">>
                        \o createCalls(ta.archs)]

\* setupContainerImages: the command after the call, the error returned and
\* the collaborator calls made, given what makeDefaultContext and
\* newContainerEngine answer.
setupContainerImages(cmd, flags, ctxErr, engErr) ==
    LET ta == targetArchFromFlag(flags.TargetArch, linuxArchSupported)
        ctx == makeDefaultContext(flags)
    IN  IF ~ta.err.isNil
        THEN [cmd |-> cmd,
              err |-> Errorf(<<"could not make build context for ", linuxOS, " OS: ">>, ta.err),
              calls |-> <<"targetArchFromFlag">>]
        ELSE IF ~ctxErr.isNil
        THEN [cmd |-> cmd, err |-> ctxErr,
              calls |-> <<"targetArchFromFlag", "makeDefaultContext">>]
        ELSE IF ~engErr.isNil
        THEN [cmd |-> [cmd EXCEPT !.defaultContext = ctx],
              err |-> engErr,
              calls |-> <<"targetArchFromFlag", "makeDefaultContext", "newContainerEngine">>]
        ELSE [cmd |-> [Images |-> setupImages(cmd.Images, ta.archs), defaultContext |-> ctx],
              err |-> NilErr,
              calls |-> <<"targetArchFromFlag", "makeDefaultContext", "newContainerEngine">>
                        \o createCalls(ta.archs)]

-----------------------------------------------------------------------------
(* Paths *)

WorkDirContainer == << <<"app">> >>
TmpDirContainer == << <<"app">>, <<"fyne-cross">>, <<"tmp">> >>
BinDirContainer == << <<"app">>, <<"fyne-cross">>, <<"bin">> >>

\* volume.JoinPathContainer(dir, elems...)
JoinPathContainer(dir, elems) == dir \o elems

packageNameWithID(ctx, image) == image.id \o ctx.Name \o <<".tar.xz">>

\* fmt.Sprintf("%s.tar.xz", cmd.defaultContext.Name)
packageName(ctx, image) == ctx.Name \o <<".tar.xz">>

\* Source of 'mv': where the packaging tool leaves the archive.
workArchive(ctx, image) ==
    JoinPathContainer(WorkDirContainer, <<packageName(ctx, image)>>)

stagingPathShared(ctx, image) ==
    JoinPathContainer(TmpDirContainer, <<packageName(ctx, image)>>)

\* Destination of 'mv' and archive read by 'tar -xf'.
stagingPath(ctx, image) ==
    JoinPathContainer(TmpDirContainer, <<image.id, packageName(ctx, image)>>)

\* Working directory of 'tar -xf'.
outputDir(ctx, image) == JoinPathContainer(BinDirContainer, <<image.id>>)

-----------------------------------------------------------------------------
(* Build: what the code does with the answer of each step *)

Continue == [returns |-> FALSE, name |-> EmptyStr, err |-> NilErr]
Return(name, err) == [returns |-> TRUE, name |-> name, err |-> err]

afterPrepareWrapped(err) ==
    IF ~err.isNil
    THEN Return(EmptyStr, Errorf(<<"could not package the Fyne app: ">>, err))
    ELSE Continue

\* err := prepareIcon(...); if err != nil { return "", err }
afterPrepare(err) == IF ~err.isNil THEN Return(EmptyStr, err) ELSE Continue

packagingCallAlwaysPackage(ctx) == "fynePackage"

\* if cmd.defaultContext.Release { fyneRelease } else { fynePackage }
packagingCall(ctx) == IF ctx.Release THEN "fyneRelease" ELSE "fynePackage"

afterPackageIgnored(err) == Continue

\* if err != nil { return "", fmt.Errorf("could not package the Fyne app: %v", err) }
afterPackage(err) ==
    IF ~err.isNil
    THEN Return(EmptyStr, Errorf(<<"could not package the Fyne app: ">>, err))
    ELSE Continue

\* image.Run(..."mv"...): the returned error is not assigned.
afterRelocate(err) == Continue

\* image.Run(..."tar", "-xf"...): the returned error is not assigned;
\* return packageName, nil
afterExtract(err, name) == Return(name, NilErr)

nextStepSkipRelocate(step) ==
    CASE step = "prepare" -> "package"
      [] step = "package" -> "extract"
      [] step = "relocate" -> "extract"
      [] step = "extract" -> "returned"

\* The statement order of Build.
nextStep(step) ==
    CASE step = "prepare" -> "package"
      [] step = "package" -> "relocate"
      [] step = "relocate" -> "extract"
      [] step = "extract" -> "returned"

-----------------------------------------------------------------------------
(* State *)

VARIABLES
    GOARCH,          \* runtime.GOARCH
    argsArch,        \* the -arch list of the command line, <<>> when absent
    appName,         \* the application name flag
    release,         \* the release flag
    phase,           \* "New", "Parsed", "ParseFailed", "Run", "Done"
    Images,          \* cmd.Images
    defaultContext,  \* cmd.defaultContext
    parseErr,        \* what Parse returned
    parseCalls,      \* the collaborator calls setupContainerImages made
    run,             \* number of Run invocations so far
    cur,             \* index in Images of the descriptor the runner is at
    bpc,             \* per descriptor: the next step of Build
    trace,           \* per descriptor: the calls of the current Build, with their answers
    ret,             \* per descriptor: what the current Build returned
    writes,          \* per descriptor: [step, path] written by its pipeline in this run
    history          \* per descriptor: names returned by successful Builds, all runs

vars == <<GOARCH, argsArch, appName, release, phase, Images, defaultContext,
          parseErr, parseCalls, run, cur, bpc, trace, ret, writes, history>>

inputs == <<GOARCH, argsArch, appName, release>>
cmdVars == <<Images, defaultContext, parseErr, parseCalls>>

RECURSIVE SeqsUpTo(_, _)
SeqsUpTo(S, n) ==
    IF n = 0 THEN {<<>>}
    ELSE LET shorter == SeqsUpTo(S, n - 1)
         IN  shorter \cup {Append(s, x) : s \in shorter, x \in S}

NoRet == [name |-> EmptyStr, err |-> NilErr]

Init ==
    /\ argsArch \in SeqsUpTo(ArchTokens, MaxArchs)
    /\ GOARCH \in HostArchs
    \* runtime.GOARCH is read only as the default of an absent -arch
    /\ argsArch # <<>> => GOARCH = "amd64"
    /\ appName \in AppNames
    /\ release \in BOOLEAN
    /\ phase = "New"
    /\ Images = <<>>
    /\ defaultContext = ZeroContext
    /\ parseErr = NilErr
    /\ parseCalls = <<>>
    /\ run = 0
    /\ cur = 0
    /\ bpc = <<>>
    /\ trace = <<>>
    /\ ret = <<>>
    /\ writes = <<>>
    /\ history = <<>>

-----------------------------------------------------------------------------
(* Parse *)

\* TargetArch: &targetArchFlag{runtime.GOARCH}, replaced by the -arch list
\* when the flag is given.
flagTargetArch(goarch, arch) == IF arch = <<>> THEN <<goarch>> ELSE arch

\* Parse: newCommonFlags, the -arch flag with its runtime.GOARCH default,
\* then setupContainerImages.
Parse ==
    /\ phase = "New"
    /\ \E flagsErr \in FlagsErrs, ctxErr \in ContextErrs, engErr \in EngineErrs :
         LET flags == [TargetArch |-> flagTargetArch(GOARCH, argsArch),
                       Name |-> appName, Release |-> release]
             r == setupContainerImages(
                      [Images |-> Images, defaultContext |-> defaultContext],
                      flags, ctxErr, engErr)
         IN  IF ~flagsErr.isNil
             THEN /\ parseErr' = flagsErr
                  /\ phase' = "ParseFailed"
                  /\ UNCHANGED <<Images, defaultContext, parseCalls,
                                 bpc, trace, ret, writes, history>>
             ELSE /\ parseErr' = r.err
                  /\ parseCalls' = r.calls
                  /\ Images' = r.cmd.Images
                  /\ defaultContext' = r.cmd.defaultContext
                  /\ phase' = IF r.err.isNil THEN "Parsed" ELSE "ParseFailed"
                  /\ bpc' = [k \in DOMAIN r.cmd.Images |-> "prepare"]
                  /\ trace' = [k \in DOMAIN r.cmd.Images |-> <<>>]
                  /\ ret' = [k \in DOMAIN r.cmd.Images |-> NoRet]
                  /\ writes' = [k \in DOMAIN r.cmd.Images |-> {}]
                  /\ history' = [k \in DOMAIN r.cmd.Images |-> {}]
    /\ UNCHANGED <<inputs, run, cur>>

-----------------------------------------------------------------------------
(* Run and Build *)

\* cmd.Run(): commonRun(cmd.defaultContext, cmd.Images, cmd) starts at the
\* first descriptor.  A finished command may be run again.
Run ==
    /\ phase \in {"Parsed", "Done"}
    /\ run < MaxRuns
    /\ phase' = "Run"
    /\ run' = run + 1
    /\ cur' = 1
    /\ bpc' = [k \in DOMAIN Images |-> "prepare"]
    /\ trace' = [k \in DOMAIN Images |-> <<>>]
    /\ ret' = [k \in DOMAIN Images |-> NoRet]
    /\ writes' = [k \in DOMAIN Images |-> {}]
    /\ UNCHANGED <<inputs, cmdVars, history>>

\* The effect on the descriptor's Build of outcome r of step `step`.
Step(i, step, call, err, r, written) ==
    /\ trace' = [trace EXCEPT ![i] = Append(@, [call |-> call, err |-> err])]
    /\ bpc' = [bpc EXCEPT ![i] = IF r.returns THEN "returned" ELSE nextStep(step)]
    /\ ret' = [ret EXCEPT ![i] = IF r.returns THEN [name |-> r.name, err |-> r.err] ELSE @]
    /\ history' = [history EXCEPT ![i] =
                      IF r.returns /\ r.err.isNil THEN @ \cup {r.name} ELSE @]
    /\ writes' = [writes EXCEPT ![i] =
                      @ \cup {[step |-> step, path |-> p] : p \in written}]
    /\ UNCHANGED <<inputs, cmdVars, phase, run, cur>>

BuildPrepare(i) ==
    /\ phase = "Run"
    /\ bpc[i] = "prepare"
    /\ \E e \in IconErrs : Step(i, "prepare", "prepareIcon", e, afterPrepare(e), {})

\* The packaging tool leaves the archive in the working directory.
BuildPackage(i) ==
    /\ phase = "Run"
    /\ bpc[i] = "package"
    /\ \E e \in FyneErrs :
         Step(i, "package", packagingCall(defaultContext), e, afterPackage(e),
              IF e.isNil THEN {workArchive(defaultContext, Images[i])} ELSE {})

BuildRelocate(i) ==
    /\ phase = "Run"
    /\ bpc[i] = "relocate"
    /\ \E e \in RunErrs :
         Step(i, "relocate", "mv", e, afterRelocate(e),
              IF e.isNil
              THEN {workArchive(defaultContext, Images[i]),
                    stagingPath(defaultContext, Images[i])}
              ELSE {})

BuildExtract(i) ==
    /\ phase = "Run"
    /\ bpc[i] = "extract"
    /\ \E e \in RunErrs :
         Step(i, "extract", "tar", e,
              afterExtract(e, packageName(defaultContext, Images[i])),
              IF e.isNil THEN {outputDir(defaultContext, Images[i])} ELSE {})

Build(i) == BuildPrepare(i) \/ BuildPackage(i) \/ BuildRelocate(i) \/ BuildExtract(i)

\* The runner after a Build returned: stop at the first error, else go on
\* with the next descriptor.
commonRunNext ==
    /\ phase = "Run"
    /\ cur \in DOMAIN Images
    /\ bpc[cur] = "returned"
    /\ IF ~ret[cur].err.isNil \/ cur = Len(Images)
       THEN phase' = "Done" /\ cur' = cur
       ELSE phase' = "Run" /\ cur' = cur + 1
    /\ UNCHANGED <<inputs, cmdVars, run, bpc, trace, ret, writes, history>>

\* A runner that starts every descriptor's pipeline at once and waits for all.
commonRunJoin ==
    /\ phase = "Run"
    /\ \A k \in DOMAIN Images : bpc[k] = "returned"
    /\ phase' = "Done"
    /\ UNCHANGED <<inputs, cmdVars, run, cur, bpc, trace, ret, writes, history>>

SeqBuildPrepare == \E i \in DOMAIN Images : i = cur /\ BuildPrepare(i)
SeqBuildPackage == \E i \in DOMAIN Images : i = cur /\ BuildPackage(i)
SeqBuildRelocate == \E i \in DOMAIN Images : i = cur /\ BuildRelocate(i)
SeqBuildExtract == \E i \in DOMAIN Images : i = cur /\ BuildExtract(i)

Next ==
    \/ Parse
    \/ Run
    \/ SeqBuildPrepare
    \/ SeqBuildPackage
    \/ SeqBuildRelocate
    \/ SeqBuildExtract
    \/ commonRunNext

Spec == Init /\ [][Next]_vars

ParBuildPrepare == \E i \in DOMAIN Images : BuildPrepare(i)
ParBuildPackage == \E i \in DOMAIN Images : BuildPackage(i)
ParBuildRelocate == \E i \in DOMAIN Images : BuildRelocate(i)
ParBuildExtract == \E i \in DOMAIN Images : BuildExtract(i)

\* One invocation: Run is called once on the parsed command.
RunOnce == phase = "Parsed" /\ Run

NextInterleaved ==
    \/ Parse
    \/ RunOnce
    \/ ParBuildPrepare
    \/ ParBuildPackage
    \/ ParBuildRelocate
    \/ ParBuildExtract
    \/ commonRunJoin

\* The descriptors' pipelines in any interleaving.
SpecInterleaved == Init /\ [][NextInterleaved]_vars

-----------------------------------------------------------------------------
(* Properties *)

PackagingCalls == {"fyneRelease", "fynePackage"}
Calls(i) == {trace[i][k].call : k \in DOMAIN trace[i]}
Succeeded(i) == bpc[i] = "returned" /\ ret[i].err.isNil
Requested == flagTargetArch(GOARCH, argsArch)
HasUnsupported(list) == \E k \in DOMAIN list : list[k] \notin Range(linuxArchSupported)

\* C1: when fyneRelease/fynePackage answers an error, Build has returned the
\* empty name and that error wrapped as "could not package the Fyne app: ...",
\* and neither 'mv' nor 'tar' was run in the descriptor.
C1_PackagingFailureAborts ==
    \A i \in DOMAIN Images : \A k \in DOMAIN trace[i] :
        (trace[i][k].call \in PackagingCalls /\ ~trace[i][k].err.isNil) =>
            /\ bpc[i] = "returned"
            /\ ret[i].name = EmptyStr
            /\ ~ret[i].err.isNil
            /\ ret[i].err.msg = <<"could not package the Fyne app: ">> \o trace[i][k].err.msg
            /\ Calls(i) \cap {"mv", "tar"} = {}

C1_Witness ==
    \E i \in DOMAIN Images :
        /\ release
        /\ Len(trace[i]) = 2
        /\ trace[i][2].call = "fyneRelease"
        /\ ~trace[i][2].err.isNil
        /\ bpc[i] = "returned"

\* C2: when the 'mv' or the 'tar -xf' command answers an error, Build returns
\* a non-nil error and not the archive name, and after a failed 'mv' the
\* 'tar -xf' command is not run.
C2_RunFailurePropagates ==
    \A i \in DOMAIN Images : \A k \in DOMAIN trace[i] :
        (trace[i][k].call \in {"mv", "tar"} /\ ~trace[i][k].err.isNil) =>
            /\ (trace[i][k].call = "mv" => "tar" \notin Calls(i))
            /\ (bpc[i] = "returned" => ~ret[i].err.isNil /\ ret[i].name = EmptyStr)

EnvGet(image, key) == {p[2] : p \in {q \in image.env : q[1] = key}}
SetEnvCallsOf(image, key) == {k \in DOMAIN image.setEnv : image.setEnv[k][1] = key}

\* C3: every descriptor of a supported architecture has, after
\* setupContainerImages, one non-empty CC and one non-empty CXX entry that
\* differ from those of the other architectures, GOARCH equal to its
\* architecture, one GOOS call, made last, with value linux, and a GOARM
\* entry exactly when the architecture is arm.
C3_EnvironmentPerArch ==
    \A i \in DOMAIN Images :
        LET im == Images[i] IN
        /\ im.arch \in Range(linuxArchSupported)
        /\ Cardinality(EnvGet(im, "CC")) = 1 /\ "" \notin EnvGet(im, "CC")
        /\ Cardinality(EnvGet(im, "CXX")) = 1 /\ "" \notin EnvGet(im, "CXX")
        /\ \A j \in DOMAIN Images :
               Images[j].arch # im.arch =>
                   /\ EnvGet(Images[j], "CC") # EnvGet(im, "CC")
                   /\ EnvGet(Images[j], "CXX") # EnvGet(im, "CXX")
        /\ EnvGet(im, "GOARCH") = {im.arch}
        /\ EnvGet(im, "GOOS") = {linuxOS}
        /\ Cardinality(SetEnvCallsOf(im, "GOOS")) = 1
        /\ im.setEnv[Len(im.setEnv)] = <<"GOOS", "linux">>
        /\ (EnvGet(im, "GOARM") # {}) <=> (im.arch = ArchArm)

C3_Witness ==
    /\ phase = "Parsed"
    /\ Len(Images) = 2
    /\ Images[1].arch = ArchArm
    /\ Images[2].arch = ArchAmd64

BuildOrder == <<"prepareIcon", "package", "mv", "tar">>
StepOf(call) == IF call \in PackagingCalls THEN "package" ELSE call

\* C4: the calls of one Build are a prefix of prepareIcon, package, mv, tar
\* (in this order, each at most once), and Build returns the archive name
\* only when all four have run.
C4_StepsInOrder ==
    \A i \in DOMAIN Images :
        /\ Len(trace[i]) <= Len(BuildOrder)
        /\ \A k \in DOMAIN trace[i] : StepOf(trace[i][k].call) = BuildOrder[k]
        /\ (ret[i].name # EmptyStr \/ Succeeded(i)) => Len(trace[i]) = Len(BuildOrder)

C4_Witness ==
    \E i \in DOMAIN Images :
        /\ Succeeded(i)
        /\ ret[i].name # EmptyStr
        /\ Len(trace[i]) = 4
        /\ \A k \in DOMAIN trace[i] : trace[i][k].err.isNil

\* C5: when the requested architecture list holds an unsupported token, Parse
\* fails, makes no build context, no container engine and no descriptor, and
\* leaves cmd.Images and cmd.defaultContext as they were; the error
\* setupContainerImages returns names the first unsupported token.
C5_UnsupportedAbortsEarly ==
    (phase # "New" /\ HasUnsupported(Requested)) =>
        /\ phase = "ParseFailed"
        /\ ~parseErr.isNil
        /\ Images = <<>>
        /\ defaultContext = ZeroContext
        /\ Range(parseCalls) \cap
               {"makeDefaultContext", "newContainerEngine", "createContainerImage"} = {}
        /\ parseCalls # <<>> =>
               /\ parseCalls = <<"targetArchFromFlag">>
               /\ \E k \in DOMAIN Requested :
                      /\ Requested[k] \notin Range(linuxArchSupported)
                      /\ \A m \in 1..(k - 1) : Requested[m] \in Range(linuxArchSupported)
                      /\ SubSeq(parseErr.msg, 1, 5) =
                             <<"could not make build context for ", linuxOS, " OS: ",
                               "arch ", Requested[k]>>

C5_Witness ==
    /\ phase = "ParseFailed"
    /\ argsArch = <<ArchAmd64, "riscv">>
    /\ parseCalls = <<"targetArchFromFlag">>

PathsOf(i) == {w.path : w \in writes[i]}
IsPrefix(p, q) == Len(p) <= Len(q) /\ SubSeq(q, 1, Len(p)) = p

\* C6 as stated: no path written by one descriptor's pipeline is written by
\* another descriptor's pipeline.
C6_NoSharedPath ==
    \A i, j \in DOMAIN Images : i # j => PathsOf(i) \cap PathsOf(j) = {}

\* C6 amended: for two descriptors, the path 'mv' writes in the staging
\* directory and the directory 'tar -xf' writes in differ from, and are not
\* nested in, every path the other descriptor's pipeline writes; the one
\* path both pipelines write is the archive in the working directory.
C6_NamespacedPathsDisjoint ==
    \A i, j \in DOMAIN Images : i # j =>
        \A w \in writes[i], v \in writes[j] :
            (IsPrefix(w.path, v.path) \/ IsPrefix(v.path, w.path)) =>
                /\ w.path = v.path
                /\ w.step \in {"package", "relocate"}
                /\ v.step \in {"package", "relocate"}
                /\ w.path = WorkDirContainer \o <<defaultContext.Name \o <<".tar.xz">> >>

C6_Witness ==
    /\ Len(Images) = 2
    /\ \A i \in DOMAIN Images :
           /\ \E w \in writes[i] : w.step = "package"
           /\ \E w \in writes[i] : w.step = "relocate" /\ Len(w.path) = 5
    /\ bpc[1] = "extract"
    /\ bpc[2] = "returned"
    /\ \E w \in writes[2] : w.step = "extract"

RECURSIVE Dedup(_)
Dedup(list) ==
    IF list = <<>> THEN <<>>
    ELSE LET front == Dedup(SubSeq(list, 1, Len(list) - 1))
             last == list[Len(list)]
         IN  IF last \in Range(front) THEN front ELSE Append(front, last)

\* C7: after a successful Parse, cmd.Images holds one descriptor per
\* requested architecture, in request order with repetitions removed, one
\* createContainerImage call each, and no two descriptors share an identifier.
C7_OneDescriptorPerArch ==
    phase \in {"Parsed", "Run", "Done"} =>
        /\ [k \in DOMAIN Images |-> Images[k].arch] = Dedup(Requested)
        /\ \A i, j \in DOMAIN Images : i # j => Images[i].id # Images[j].id
        /\ \A i \in DOMAIN Images : Images[i].os = linuxOS
        /\ Cardinality({k \in DOMAIN parseCalls : parseCalls[k] = "createContainerImage"})
               = Len(Images)

C7_Witness ==
    /\ phase = "Parsed"
    /\ argsArch = <<ArchArm64, ArchArm64>>
    /\ Len(Images) = 1

C7_WitnessOrder ==
    /\ phase = "Parsed"
    /\ argsArch = <<ArchArm64, Arch386>>
    /\ Len(Images) = 2

\* C8: every successful Build, in every run, for every descriptor and either
\* release flag, returns the application name followed by ".tar.xz".
C8_DeterministicArchiveName ==
    \A i \in DOMAIN Images :
        /\ history[i] \subseteq {defaultContext.Name \o <<".tar.xz">>}
        /\ Succeeded(i) => ret[i].name = defaultContext.Name \o <<".tar.xz">>

C8_Witness ==
    /\ run = 2
    /\ Len(Images) = 2
    /\ Succeeded(2)
    /\ history[1] # {}
    /\ history[2] # {}

\* C9: a Build that reached the package step made exactly one packaging call:
\* fyneRelease when Release is set, fynePackage when it is not.
C9_OnePackagingCall ==
    \A i \in DOMAIN Images :
        Len(trace[i]) >= 2 =>
            /\ Cardinality({k \in DOMAIN trace[i] : trace[i][k].call \in PackagingCalls}) = 1
            /\ ("fyneRelease" \in Calls(i)) <=> defaultContext.Release
            /\ ("fynePackage" \in Calls(i)) <=> ~defaultContext.Release

C9_Witness ==
    \E i \in DOMAIN Images :
        /\ defaultContext.Release
        /\ Images[i].arch = ArchArm
        /\ "fyneRelease" \in Calls(i)
        /\ Len(trace[i]) = 4

\* C10: when prepareIcon answers an error, Build has returned the empty name
\* and that very error, and no other step was run in the descriptor.
C10_PrepareFailureAborts ==
    \A i \in DOMAIN Images :
        (Len(trace[i]) >= 1 /\ ~trace[i][1].err.isNil) =>
            /\ trace[i][1].call = "prepareIcon"
            /\ bpc[i] = "returned"
            /\ ret[i].name = EmptyStr
            /\ ret[i].err = trace[i][1].err
            /\ Len(trace[i]) = 1

C10_Witness ==
    \E i \in DOMAIN Images :
        /\ Len(trace[i]) = 1
        /\ ~trace[i][1].err.isNil
        /\ bpc[i] = "returned"
        /\ ~ret[i].err.isNil

====
